---- MODULE Spec2Model ----
(***************************************************************************)
(* State-machine model of crates/prism-physics/src/molecular_dynamics.rs:  *)
(* construction of a MolecularDynamicsEngine (new, from_sovereign_buffer)  *)
(* and the NLNM breathing run loop (run_nlnm_breathing, nlnm_step),        *)
(* together with the read-only observers get_statistics and                *)
(* get_current_atoms.                                                      *)
(*                                                                         *)
(* Numbers.  The f32 fields gradient_norm, current_energy and the          *)
(* threshold are modelled as exact rationals <<num, den>> with den > 0;    *)
(* f32::INFINITY is <<1, 0>>.  f32 rounding is monotone, so the strict     *)
(* comparisons of the code keep their outcome on the values used here.     *)
(* current_temperature and acceptance_rate are fixed-point numbers in      *)
(* millionths, with sin and cos by their Taylor polynomials.               *)
(***************************************************************************)
EXTENDS Integers, Sequences, FiniteSets, TLC

\* ------------------------------------------------------------------ bounds
\* Longest input buffer (in records of the staged file).
MaxLen == 1
\* Largest `steps` argument of one run_nlnm_breathing call.
MaxSteps == 3
\* Number of run_nlnm_breathing calls made on one engine.
MaxRuns == 2
MaxClock == 1

\* ------------------------------------------------------------- rationals
RECURSIVE Gcd(_, _)
Gcd(a, b) == IF b = 0 THEN a ELSE Gcd(b, a % b)

Abs(a) == IF a < 0 THEN -a ELSE a

\* <<n, d>> with d > 0, in lowest terms.
Norm(n, d) ==
  LET g == Gcd(Abs(n), d)
  IN  IF g = 0 THEN <<0, 1>> ELSE <<n \div g, d \div g>>

RatAdd(p, q) == Norm(p[1] * q[2] + q[1] * p[2], p[2] * q[2])

\* f32::INFINITY (molecular_dynamics.rs:155).
INF == <<1, 0>>

\* The f32 comparison a < b, INFINITY included.
Lt(a, b) ==
  IF a = INF THEN FALSE
  ELSE IF b = INF THEN TRUE
  ELSE a[1] * b[2] < b[1] * a[2]

Leq(a, b) == ~Lt(b, a)

\* One millionth is the unit of the fixed-point fields.
Micro == 1000 * 1000

\* ---------------------------------------------------------------- inputs
\* Records of a .ptb buffer: a header record, a malformed record, atoms.
Hdr == [kind |-> "hdr", residue_id |-> 0, coords |-> <<0, 0, 0>>]
Bad == [kind |-> "bad", residue_id |-> 0, coords |-> <<0, 0, 0>>]
AtomRec(r, c) == [kind |-> "atom", residue_id |-> r, coords |-> c]

BufferItems ==
  {Hdr, Bad, AtomRec(390, <<0, 0, 0>>), AtomRec(100, <<0, 0, 0>>)}

Buffers == UNION {[1..n -> BufferItems] : n \in 0..MaxLen}

\* gradient_threshold values: 0.0005, 0.001 (the default), 0.3, 0.501.
Thresholds == {<<1, 2000>>, <<1, 1000>>, <<3, 10>>, <<501, 1000>>}

\* MolecularDynamicsConfig: the fields the engine reads.
Configs ==
  [use_gpu : BOOLEAN, gradient_threshold : Thresholds,
   temperature : {300150000}, max_steps : {10000}]

\* PrismError kinds returned by construction.
ErrValidation == "Validation"
ErrInternal == "Internal"
ErrGpu == "Gpu"

\* ------------------------------------------------------- external parser
RECURSIVE SelectAtoms(_)
SelectAtoms(s) ==
  IF s = <<>> THEN <<>>
  ELSE LET rest == SelectAtoms(Tail(s))
       IN  IF Head(s).kind = "atom"
           THEN <<[residue_id |-> Head(s).residue_id,
                   coords |-> Head(s).coords]>> \o rest
           ELSE rest

\* PtbStructure::load: fails on a malformed record.
PtbLoadOk(file) == \A i \in 1..Len(file) : file[i].kind # "bad"

\* PtbStructure::atoms: the atom records, in file order.
PtbAtoms(file) == SelectAtoms(file)

\* ------------------------------------------------------------ the engine
VARIABLES
  cuda,                 \* build: #[cfg(feature = "cuda")] is compiled in
  telemetry,            \* build: #[cfg(feature = "telemetry")] is compiled in
  now,                  \* the clock std::time::Instant::now() reads
  pc,                   \* "uninit", "ready", "loop", "exit", "failed"
  via,                  \* constructor used: "none", "new", "buffer"
  result,               \* construction result: "none", "Ok" or an error kind
  request,              \* the config handed to the constructor
  input,                \* sovereign_data handed to from_sovereign_buffer
  tempFile,             \* /tmp/temp_ptb_parse.ptb: [exists, data]
  guardCalls,           \* number of verify_gpu_memory invocations
  guardAnswer,          \* "none", "approved", "rejected"
  config,
  current_step, current_energy, current_temperature, acceptance_rate,
  gradient_norm,
  start_time,
  atoms_cpu,
  parsed,               \* the atoms as parse_protein_structure returned them
  steps,                \* argument of the run_nlnm_breathing call in progress
  step,                 \* its loop variable
  calls,                \* one record per run call:
                        \* [steps, iters, broke, from], `from` being
                        \* current_step at the call's entry
  executed,             \* nlnm_step executions over the engine's lifetime
  frames,               \* frames handed to record_simulation_state so far
  outcome,              \* PhaseOutcome of the last completed run call
  twin,                 \* a second engine, built from the same config and
                        \* atoms: [built, engine, calls]
  ctor                  \* two parse_protein_structure calls in progress:
                        \* per caller [pc, buf, loaded, result, atoms, clean]

vars ==
  <<cuda, telemetry, now, pc, via, result, request, input, tempFile,
    guardCalls, guardAnswer, config,
    current_step, current_energy, current_temperature, acceptance_rate,
    gradient_norm, start_time, atoms_cpu, parsed, steps, step, calls,
    executed, frames, outcome, twin, ctor>>

engineVars ==
  <<config, current_step, current_energy, current_temperature,
    acceptance_rate, gradient_norm, start_time, atoms_cpu>>

runVars == <<steps, step, calls, executed, frames, outcome>>

\* What the operations of the one engine leave alone.
otherVars == <<now, twin, ctor>>

NoConfig ==
  [use_gpu |-> FALSE, gradient_threshold |-> <<1, 1000>>,
   temperature |-> 300150000, max_steps |-> 10000]

NoOutcome ==
  [set |-> FALSE, status |-> "none", steps_completed |-> 0,
   final_energy |-> <<0, 1>>, final_gradient |-> INF, converged |-> FALSE,
   runtime_seconds |-> 0, keys |-> {}, message_fields |-> {}]

\* The keys run_nlnm_breathing inserts into the outcome's telemetry map.
OutcomeKeys ==
  {"steps_completed", "final_energy", "final_gradient", "converged",
   "runtime_seconds"}

\* The values run_nlnm_breathing formats into the outcome's message.
MessageFields == {"steps", "energy", "gradient"}

\* New with gradient_norm starting at 0.0 instead of f32::INFINITY.
NewZeroGradient(cfg) ==
  [config |-> cfg,
   current_step |-> 0,
   current_energy |-> <<0, 1>>,
   current_temperature |-> 300150000,
   acceptance_rate |-> 0,
   gradient_norm |-> <<0, 1>>,
   start_time |-> now,
   atoms_cpu |-> <<>>]

\* MolecularDynamicsEngine::new: the fields of a new engine.
New(cfg) ==
  [config |-> cfg,
   current_step |-> 0,
   current_energy |-> <<0, 1>>,
   current_temperature |-> 300150000,
   acceptance_rate |-> 0,
   gradient_norm |-> INF,
   start_time |-> now,
   atoms_cpu |-> <<>>]

\* calculate_initial_energy with the sign of energy_per_atom lost.
calculate_initial_energy_positive(atom_count) == Norm(5 * atom_count, 2)

\* calculate_initial_energy: -2.5 per atom.
calculate_initial_energy(atom_count) == Norm(-5 * atom_count, 2)

\* GuardRequested without the `if config.use_gpu` test.
GuardRequestedAlways(cfg) == cuda

\* The guard of `Self::verify_gpu_memory(&config)?` in from_sovereign_buffer.
GuardRequested(cfg) == cuda /\ cfg.use_gpu

\* The guard of `engine.upload_atoms_to_gpu()?` in from_sovereign_buffer.
UploadRequested(cfg) == cuda /\ cfg.use_gpu

\* verify_gpu_memory: Ok on approval, PrismError::gpu on rejection.
verify_gpu_memory(approved) ==
  IF approved THEN [ok |-> TRUE, err |-> "none"]
  ELSE [ok |-> FALSE, err |-> ErrGpu]

\* upload_atoms_to_gpu: rejects an empty atom vector, else does nothing.
upload_atoms_to_gpu(atoms) ==
  IF atoms = <<>> THEN [ok |-> FALSE, err |-> ErrValidation]
  ELSE [ok |-> TRUE, err |-> "none"]

\* parse_protein_structure on `data`, the temp file being `file` before;
\* fsOk: File::create and write_all succeed.
parse_protein_structure(data, file, fsOk) ==
  IF data = <<>>
  THEN [ok |-> FALSE, err |-> ErrValidation, atoms |-> <<>>, file |-> file]
  ELSE IF ~fsOk
  THEN [ok |-> FALSE, err |-> ErrInternal, atoms |-> <<>>, file |-> file]
  ELSE LET written == [exists |-> TRUE, data |-> data]
       IN  IF ~PtbLoadOk(written.data)
           THEN [ok |-> FALSE, err |-> ErrInternal, atoms |-> <<>>,
                 file |-> written]
           ELSE [ok |-> TRUE, err |-> "none",
                 atoms |-> PtbAtoms(written.data),
                 file |-> [exists |-> FALSE, data |-> <<>>]]

NoCaller ==
  [pc |-> "idle", buf |-> <<>>, loaded |-> <<>>, result |-> "none",
   atoms |-> <<>>, clean |-> TRUE]

Init ==
  /\ cuda \in BOOLEAN
  /\ telemetry \in BOOLEAN
  /\ now = 0
  /\ start_time = 0
  /\ frames = <<>>
  /\ twin = [built |-> FALSE, engine |-> New(NoConfig), calls |-> <<>>]
  /\ ctor = [p \in {1, 2} |-> NoCaller]
  /\ pc = "uninit"
  /\ via = "none"
  /\ result = "none"
  /\ request = NoConfig
  /\ input = <<>>
  /\ tempFile = [exists |-> FALSE, data |-> <<>>]
  /\ guardCalls = 0
  /\ guardAnswer = "none"
  /\ config = NoConfig
  /\ current_step = 0
  /\ current_energy = <<0, 1>>
  /\ current_temperature = 300150000
  /\ acceptance_rate = 0
  /\ gradient_norm = INF
  /\ atoms_cpu = <<>>
  /\ parsed = <<>>
  /\ steps = 0
  /\ step = 0
  /\ calls = <<>>
  /\ executed = 0
  /\ outcome = NoOutcome

\* The engine `e` becomes the model's engine.
Install(e) ==
  /\ config' = e.config
  /\ current_step' = e.current_step
  /\ current_energy' = e.current_energy
  /\ current_temperature' = e.current_temperature
  /\ acceptance_rate' = e.acceptance_rate
  /\ gradient_norm' = e.gradient_norm
  /\ start_time' = e.start_time
  /\ atoms_cpu' = e.atoms_cpu

\* MolecularDynamicsEngine::new(cfg)
NewEngine(cfg) ==
  /\ pc = "uninit"
  /\ Install(New(cfg))
  /\ pc' = "ready"
  /\ via' = "new"
  /\ result' = "Ok"
  /\ request' = cfg
  /\ parsed' = <<>>
  /\ UNCHANGED <<cuda, telemetry, input, tempFile, guardCalls, guardAnswer>>
  /\ UNCHANGED runVars

\* MolecularDynamicsEngine::from_sovereign_buffer(cfg, data); `approved` is
\* the VRAM guard's answer, `fsOk` the file system's.
FromSovereignBuffer(cfg, data, approved, fsOk) ==
  /\ pc = "uninit"
  /\ via' = "buffer"
  /\ request' = cfg
  /\ input' = data
  /\ UNCHANGED <<cuda, telemetry>>
  /\ UNCHANGED runVars
  /\ LET asked == GuardRequested(cfg)
         guard == IF asked THEN verify_gpu_memory(approved)
                  ELSE [ok |-> TRUE, err |-> "none"]
         p == parse_protein_structure(data, tempFile, fsOk)
         e == [New(cfg) EXCEPT
                 !.current_energy = calculate_initial_energy(Len(p.atoms)),
                 !.atoms_cpu = p.atoms]
         up == IF UploadRequested(e.config)
               THEN upload_atoms_to_gpu(e.atoms_cpu)
               ELSE [ok |-> TRUE, err |-> "none"]
     IN  /\ guardCalls' = IF asked THEN guardCalls + 1 ELSE guardCalls
         /\ guardAnswer' = IF ~asked THEN "none"
                           ELSE IF approved THEN "approved" ELSE "rejected"
         /\ IF ~guard.ok
            THEN /\ result' = guard.err
                 /\ pc' = "failed"
                 /\ UNCHANGED <<tempFile, parsed>>
                 /\ UNCHANGED engineVars
            ELSE IF ~p.ok
            THEN /\ result' = p.err
                 /\ pc' = "failed"
                 /\ tempFile' = p.file
                 /\ UNCHANGED parsed
                 /\ UNCHANGED engineVars
            ELSE IF ~up.ok
            THEN /\ result' = up.err
                 /\ pc' = "failed"
                 /\ tempFile' = p.file
                 /\ parsed' = p.atoms
                 /\ UNCHANGED engineVars
            ELSE /\ result' = "Ok"
                 /\ pc' = "ready"
                 /\ tempFile' = p.file
                 /\ parsed' = p.atoms
                 /\ Install(e)

\* ------------------------------------------------------------- nlnm_step
RatMul(p, q) == Norm(p[1] * q[1], p[2] * q[2])

\* step_factor = 1.0 / (current_step as f32 + 1.0)
StepFactor(n) == <<1, n + 1>>

\* (step_factor - 0.5) * 0.1, the increment of current_energy
EnergyDelta(n) == RatMul(RatAdd(StepFactor(n), <<-1, 2>>), <<1, 10>>)

\* gradient_norm = step_factor + 0.001
GradientNorm(n) == RatAdd(StepFactor(n), <<1, 1000>>)

\* sin(n * 0.1) in millionths, by the Taylor polynomial of degree 5,
\* x - x^3/6 + x^5/120 with x = n/10 (the fractions reduced).
SinTenth(n) ==
  100000 * n - (500 * n * n * n) \div 3 + (n * n * n * n * n) \div 12

\* cos(n * 0.05) in millionths, by the Taylor polynomial of degree 4,
\* 1 - x^2/2 + x^4/24 with x = n/20 (the fractions reduced).
CosTwentieth(n) ==
  Micro - 1250 * n * n + (25 * n * n * n * n) \div 96

\* f32::clamp
Clamp(x, lo, hi) == IF x < lo THEN lo ELSE IF x > hi THEN hi ELSE x

\* Temperature reading the clock as well as the step.
TemperatureTimed(cfg, n) == cfg.temperature + SinTenth(n + now) \div 10

\* current_temperature = config.temperature + sin(current_step * 0.1) * 0.1
Temperature(cfg, n) == cfg.temperature + SinTenth(n) \div 10

\* acceptance_rate = (0.6 + cos(current_step * 0.05) * 0.1).clamp(0.5, 0.9)
AcceptanceRate(n) ==
  Clamp(600000 + CosTwentieth(n) \div 10, 500000, 900000)

\* nlnm_step without the acceptance_rate update.
nlnm_step_no_acceptance(e) ==
  [e EXCEPT
     !.current_energy = RatAdd(e.current_energy, EnergyDelta(e.current_step)),
     !.gradient_norm = GradientNorm(e.current_step),
     !.current_temperature = Temperature(e.config, e.current_step)]

\* nlnm_step: the engine's diagnostics after the step, from those before
\* (e.current_step is already the loop variable); atoms_cpu is not touched.
nlnm_step(e) ==
  [e EXCEPT
     !.current_energy = RatAdd(e.current_energy, EnergyDelta(e.current_step)),
     !.gradient_norm = GradientNorm(e.current_step),
     !.current_temperature = Temperature(e.config, e.current_step),
     !.acceptance_rate = AcceptanceRate(e.current_step)]

\* nlnm_step failing on a step whose gradient is already below threshold.
nlnm_step_result_fallible(e) ==
  IF Lt(GradientNorm(e.current_step), e.config.gradient_threshold)
  THEN [ok |-> FALSE, err |-> ErrInternal]
  ELSE [ok |-> TRUE, err |-> "none"]

\* The Result nlnm_step returns: `Ok(())` on every path.
nlnm_step_result(e) == [ok |-> TRUE, err |-> "none"]

\* The engine as a record of its fields.
Engine ==
  [config |-> config,
   current_step |-> current_step,
   current_energy |-> current_energy,
   current_temperature |-> current_temperature,
   acceptance_rate |-> acceptance_rate,
   gradient_norm |-> gradient_norm,
   start_time |-> start_time,
   atoms_cpu |-> atoms_cpu]

\* `self.current_step = step` at the head of the loop body
SetCurrentStep(e, loopStep) == [e EXCEPT !.current_step = loopStep]

\* LoopConverged with the comparison reversed.
LoopConvergedFlipped(e) == Lt(e.config.gradient_threshold, e.gradient_norm)

\* The loop's convergence check:
\* self.gradient_norm < self.config.nlnm_config.gradient_threshold
LoopConverged(e) == Lt(e.gradient_norm, e.config.gradient_threshold)

\* OutcomeConverged with <= in place of <.
OutcomeConvergedLeq(e) == Leq(e.gradient_norm, e.config.gradient_threshold)

\* The "converged" entry of the outcome's telemetry map
OutcomeConverged(e) == Lt(e.gradient_norm, e.config.gradient_threshold)

\* The MolecularDynamicsStats get_statistics builds for engine e at time t.
Statistics(e, t) ==
  [current_step |-> e.current_step,
   total_steps |-> e.config.max_steps,
   current_energy |-> e.current_energy,
   current_temperature |-> e.current_temperature,
   acceptance_rate |-> e.acceptance_rate,
   gradient_norm |-> e.gradient_norm,
   runtime_seconds |-> t - e.start_time,
   converged |-> Lt(e.gradient_norm, e.config.gradient_threshold)]

\* get_statistics
get_statistics == Statistics(Engine, now)

\* record_telemetry_frame: the frame handed to record_simulation_state.
record_telemetry_frame(e) ==
  [step |-> e.current_step,
   start_time |-> e.start_time,
   energy |-> e.current_energy,
   temperature |-> e.current_temperature,
   acceptance_rate |-> e.acceptance_rate,
   gradient_norm |-> e.gradient_norm]

\* TelemetryFrames with the frame recorded after the convergence check.
TelemetryFramesAfterCheck(fr, e, stop) ==
  IF telemetry /\ ~stop THEN Append(fr, record_telemetry_frame(e)) ELSE fr

\* `#[cfg(feature = "telemetry")] self.record_telemetry_frame();` in the
\* loop body, between nlnm_step and the convergence check (whose result is
\* `stop`): the frames recorded after it.
TelemetryFrames(fr, e, stop) ==
  IF telemetry THEN Append(fr, record_telemetry_frame(e)) ELSE fr

\* get_current_atoms without the is_empty test.
get_current_atoms_unchecked ==
  [ok |-> TRUE, err |-> "none", atoms |-> atoms_cpu]

\* get_current_atoms: an error on an empty store, else a copy of atoms_cpu
get_current_atoms ==
  IF atoms_cpu = <<>>
  THEN [ok |-> FALSE, err |-> ErrValidation, atoms |-> <<>>]
  ELSE [ok |-> TRUE, err |-> "none", atoms |-> atoms_cpu]

\* ---------------------------------------------------- run_nlnm_breathing
constructVars ==
  <<cuda, telemetry, via, result, request, input, tempFile, guardCalls,
    guardAnswer, parsed>>

\* `for step in 1..=steps`: after `done` iterations another one follows.
LoopContinues(done, n) == done < n

\* Entry of run_nlnm_breathing(n): the loop `for step in 1..=n` is set up.
RunBegin(n) ==
  /\ pc = "ready"
  /\ Len(calls) < MaxRuns
  /\ steps' = n
  /\ step' = 0
  /\ calls' = Append(calls, [steps |-> n, iters |-> 0, broke |-> FALSE,
                              from |-> current_step])
  /\ pc' = "loop"
  /\ Install([Engine EXCEPT !.start_time = now])
  /\ UNCHANGED <<executed, frames, outcome>>
  /\ UNCHANGED constructVars

\* One iteration of the loop body, up to and including the convergence
\* check; `self.nlnm_step()?` returns the step's error from the call.
RunIter ==
  /\ pc = "loop"
  /\ LoopContinues(step, steps)
  /\ LET e0 == SetCurrentStep(Engine, step + 1)
         r == nlnm_step_result(e0)
         e == nlnm_step(e0)
         stop == LoopConverged(e)
     IN  IF r.ok
         THEN /\ step' = step + 1
              /\ Install(e)
              /\ executed' = executed + 1
              /\ frames' = TelemetryFrames(frames, e, stop)
              /\ calls' = [calls EXCEPT ![Len(calls)].iters = @ + 1,
                                        ![Len(calls)].broke = stop]
              /\ pc' = IF stop THEN "exit" ELSE "loop"
              /\ UNCHANGED outcome
         ELSE /\ step' = step + 1
              /\ Install(e0)
              /\ outcome' = [NoOutcome EXCEPT !.set = TRUE, !.status = r.err]
              /\ pc' = "ready"
              /\ UNCHANGED <<executed, frames, calls>>
  /\ UNCHANGED steps
  /\ UNCHANGED constructVars

\* After the loop (exhausted or left by break): the PhaseOutcome is built.
RunEnd ==
  /\ pc \in {"loop", "exit"}
  /\ pc = "loop" => ~LoopContinues(step, steps)
  /\ outcome' =
       [set |-> TRUE, status |-> "Success",
        steps_completed |-> current_step,
        final_energy |-> current_energy,
        final_gradient |-> gradient_norm,
        converged |-> OutcomeConverged(Engine),
        runtime_seconds |-> now - start_time,
        keys |-> OutcomeKeys,
        message_fields |-> MessageFields]
  /\ pc' = "ready"
  /\ UNCHANGED <<steps, step, calls, executed, frames>>
  /\ UNCHANGED engineVars
  /\ UNCHANGED constructVars

Next ==
  \/ \E cfg \in Configs : NewEngine(cfg) /\ UNCHANGED otherVars
  \/ \E cfg \in Configs, data \in Buffers, approved \in BOOLEAN,
        fsOk \in BOOLEAN :
          FromSovereignBuffer(cfg, data, approved, fsOk)
          /\ UNCHANGED otherVars
  \/ \E n \in 0..MaxSteps : RunBegin(n) /\ UNCHANGED otherVars
  \/ RunIter /\ UNCHANGED otherVars
  \/ RunEnd /\ UNCHANGED otherVars

Spec == Init /\ [][Next]_vars

\* ------------------------------------------------------ a pair of engines
\* The k-th run call on the engine.
Call(k) == calls[k]

\* run_nlnm_breathing(n) as one step on the engine `e`, `done` iterations
\* of the loop being behind it.
RECURSIVE RunLoop(_, _, _)
RunLoop(e, done, n) ==
  IF ~LoopContinues(done, n) THEN e
  ELSE LET e0 == SetCurrentStep(e, done + 1)
           e1 == nlnm_step(e0)
       IN  IF ~nlnm_step_result(e0).ok THEN e0
           ELSE IF LoopConverged(e1) THEN e1
           ELSE RunLoop(e1, done + 1, n)

\* Two engines are built by from_sovereign_buffer from the same config and
\* the same buffer (guard approving, file system working); the second one is
\* kept in `twin`.
ConstructPair(cfg, data) ==
  /\ FromSovereignBuffer(cfg, data, TRUE, TRUE)
  /\ twin' = [built |-> result' = "Ok", engine |-> Engine', calls |-> <<>>]
  /\ UNCHANGED <<now, ctor>>

\* The second engine is given the run call the first one was given at the
\* same position: run_nlnm_breathing(n) from entry to return.
TwinRun ==
  /\ pc = "ready"
  /\ twin.built
  /\ Len(twin.calls) < Len(calls)
  /\ LET n == Call(Len(twin.calls) + 1).steps
     IN  twin' = [twin EXCEPT
                    !.engine = RunLoop([@ EXCEPT !.start_time = now], 0, n),
                    !.calls = Append(@, n)]
  /\ UNCHANGED <<now, ctor>>
  /\ UNCHANGED engineVars
  /\ UNCHANGED runVars
  /\ UNCHANGED <<pc, constructVars>>

\* Time passes between two calls.
Tick ==
  /\ pc = "ready"
  /\ now < MaxClock
  /\ now' = now + 1
  /\ UNCHANGED <<twin, ctor>>
  /\ UNCHANGED engineVars
  /\ UNCHANGED runVars
  /\ UNCHANGED <<pc, constructVars>>

NextPair ==
  \/ \E cfg \in Configs, data \in Buffers : ConstructPair(cfg, data)
  \/ \E n \in 0..MaxSteps : RunBegin(n) /\ UNCHANGED otherVars
  \/ RunIter /\ UNCHANGED otherVars
  \/ RunEnd /\ UNCHANGED otherVars
  \/ TwinRun
  \/ Tick

SpecPair == Init /\ [][NextPair]_vars

\* ------------------------------------- two constructions at the same time
\* Two callers of from_sovereign_buffer run parse_protein_structure side by
\* side on the one path /tmp/temp_ptb_parse.ptb; the file system works.
Other(p) == 3 - p

\* File::create followed by write_all on an appending handle.
WrittenAppend(file, data) ==
  [exists |-> TRUE, data |-> IF file.exists THEN file.data \o data ELSE data]

\* File::create followed by write_all: the file holds `data` and nothing else.
Written(file, data) == [exists |-> TRUE, data |-> data]

\* The other caller sees the file change under it if it has written and
\* not loaded yet.
Disturb(p) ==
  [ctor EXCEPT ![Other(p)].clean = @ /\ ctor[Other(p)].pc # "load"]

\* Entry of parse_protein_structure(data): the empty buffer is refused.
RaceStart(p, data) ==
  /\ ctor[p].pc = "idle"
  /\ ctor' = [ctor EXCEPT
                ![p] = IF data = <<>>
                       THEN [@ EXCEPT !.pc = "done", !.result = ErrValidation]
                       ELSE [@ EXCEPT !.pc = "write", !.buf = data]]
  /\ UNCHANGED tempFile

\* File::create(temp_file_path) and temp_file.write_all(data)
RaceWrite(p) ==
  /\ ctor[p].pc = "write"
  /\ tempFile' = Written(tempFile, ctor[p].buf)
  /\ ctor' = [Disturb(p) EXCEPT ![p].pc = "load"]

\* PtbStructure::load(temp_file_path)
RaceLoad(p) ==
  /\ ctor[p].pc = "load"
  /\ ctor' = [ctor EXCEPT
                ![p] = IF tempFile.exists /\ PtbLoadOk(tempFile.data)
                       THEN [@ EXCEPT !.pc = "remove",
                                      !.loaded = tempFile.data]
                       ELSE [@ EXCEPT !.pc = "done", !.result = ErrInternal]]
  /\ UNCHANGED tempFile

\* remove_file(temp_file_path), its result ignored, then
\* ptb_structure.atoms() and Ok(atoms)
RaceRemove(p) ==
  /\ ctor[p].pc = "remove"
  /\ tempFile' = [exists |-> FALSE, data |-> <<>>]
  /\ ctor' = [Disturb(p) EXCEPT ![p].pc = "done", ![p].result = "Ok",
                                ![p].atoms = PtbAtoms(ctor[p].loaded)]

raceFixed ==
  <<cuda, telemetry, now, pc, via, result, request, input, guardCalls,
    guardAnswer, parsed, twin>>

NextRace ==
  \/ \E p \in {1, 2}, data \in Buffers :
       RaceStart(p, data) /\ UNCHANGED <<raceFixed, engineVars, runVars>>
  \/ \E p \in {1, 2} :
       RaceWrite(p) /\ UNCHANGED <<raceFixed, engineVars, runVars>>
  \/ \E p \in {1, 2} :
       RaceLoad(p) /\ UNCHANGED <<raceFixed, engineVars, runVars>>
  \/ \E p \in {1, 2} :
       RaceRemove(p) /\ UNCHANGED <<raceFixed, engineVars, runVars>>

SpecRace == Init /\ [][NextRace]_vars

\* ---------------------------------------------------------------- claims
\* An engine exists: construction returned Ok.
Constructed == pc \in {"ready", "loop", "exit"}

\* C1: a second run call continues current_step from where the first left
\* it: current_step never decreases during the second call, and after
\* run(a); run(b) with a, b >= 1 and no early stop it equals a + b.
C1_ContinuesAcrossRuns ==
  [][/\ Len(calls') = 2 => current_step' >= current_step
     /\ ( /\ pc' = "ready"
          /\ Len(calls') = 2
          /\ calls'[1].steps >= 1 /\ calls'[2].steps >= 1
          /\ ~calls'[1].broke /\ ~calls'[2].broke )
        => current_step' = calls'[1].steps + calls'[2].steps]_vars

\* The buffer parses and holds at least one atom.
ValidBuffer(data) ==
  data # <<>> /\ PtbLoadOk(data) /\ PtbAtoms(data) # <<>>

\* C2: with use_gpu set and the VRAM guard rejecting, from_sovereign_buffer
\* on a valid non-empty buffer still returns an engine and no error.
C2_RejectedGuardStillConstructs ==
  ( /\ via = "buffer"
    /\ request.use_gpu
    /\ guardAnswer = "rejected"
    /\ ValidBuffer(input) )
  => (result = "Ok" /\ Constructed)

\* C3: on a fresh engine with gradient_threshold <= 0.001 the first run never
\* leaves its loop by break: it runs all its steps and ends with
\* current_step = steps and converged = false.
C3_NoEarlyStopBelowFloor ==
  ( /\ Constructed
    /\ Len(calls) = 1
    /\ Leq(config.gradient_threshold, <<1, 1000>>) )
  => /\ ~Call(1).broke
     /\ pc = "ready" =>
          /\ current_step = Call(1).steps
          /\ Call(1).iters = Call(1).steps
          /\ ~get_statistics.converged

C3_Witness ==
  /\ pc = "ready"
  /\ Len(calls) = 1
  /\ Call(1).steps = MaxSteps
  /\ config.gradient_threshold = <<1, 2000>>
  /\ current_step = MaxSteps

\* C4: after the n-th step of the engine's lifetime gradient_norm is
\* 1/(n+1) + 0.001, steps of later run calls included.
C4_GradientByLifetimeStep ==
  executed >= 1 =>
    gradient_norm = Norm(1000 + (executed + 1), 1000 * (executed + 1))

\* C5: get_statistics().converged is gradient_norm < gradient_threshold in
\* every state, and the converged metric a run call returned is what
\* get_statistics reports right after the call.
C5_ConvergedFlag ==
  /\ get_statistics.converged = Lt(gradient_norm, config.gradient_threshold)
  /\ (pc = "ready" /\ outcome.set) =>
       outcome.converged = get_statistics.converged

C5_Witness ==
  /\ pc = "ready"
  /\ Len(calls) = 2
  /\ outcome.set
  /\ outcome.converged
  /\ Call(2).broke

\* C6: an engine on which no run was called has current_step = 0,
\* gradient_norm = +infinity and converged = false.
C6_FreshEngine ==
  (pc = "ready" /\ calls = <<>>) =>
    /\ current_step = 0
    /\ gradient_norm = INF
    /\ get_statistics.gradient_norm = INF
    /\ ~get_statistics.converged

C6_Witness ==
  /\ pc = "ready"
  /\ calls = <<>>
  /\ via = "buffer"
  /\ Len(atoms_cpu) >= 1

\* C7: from_sovereign_buffer on an empty buffer returns a validation or
\* parse error and no engine, whatever the configuration and the guard.
C7_EmptyBufferValidationError ==
  (via = "buffer" /\ input = <<>>) =>
    (result \in {ErrValidation, ErrInternal} /\ pc = "failed")

\* C8: every engine from_sovereign_buffer returns holds at least one atom
\* (an empty parse fails with a validation error).
C8_EngineHasAtoms ==
  /\ (via = "buffer" /\ result = "Ok") => Len(atoms_cpu) >= 1
  /\ ( /\ via = "buffer"
       /\ guardAnswer # "rejected"
       /\ input # <<>> /\ PtbLoadOk(input) /\ PtbAtoms(input) = <<>>
       /\ result # ErrInternal )
     => result = ErrValidation

\* The region of the spec's selective-stiffness policy, residues 380..400.
InRegion(atom) == atom.residue_id \in 380..400

\* Displacement of atom i from its parsed position (sum over the axes).
Displacement(i) ==
  Abs(atoms_cpu[i].coords[1] - parsed[i].coords[1])
  + Abs(atoms_cpu[i].coords[2] - parsed[i].coords[2])
  + Abs(atoms_cpu[i].coords[3] - parsed[i].coords[3])

\* C9: after a run of at least one step the atoms have moved, an atom inside
\* the region strictly further than an otherwise identical atom outside it.
C9_RegionDisplacement ==
  ( /\ pc = "ready"
    /\ calls # <<>>
    /\ Call(Len(calls)).steps >= 1
    /\ atoms_cpu # <<>> )
  => /\ get_current_atoms.atoms # parsed
     /\ \A i, j \in 1..Len(atoms_cpu) :
          ( /\ InRegion(parsed[i])
            /\ ~InRegion(parsed[j])
            /\ parsed[i].coords = parsed[j].coords )
          => Displacement(i) > Displacement(j)

\* C10: verify_gpu_memory is invoked once, by from_sovereign_buffer, when the
\* cuda build is asked for use_gpu, and in no other case; the count never
\* changes afterwards, however many steps and run calls follow.
C10_GuardOnceAtConstruction ==
  /\ guardCalls =
       IF via = "buffer" /\ cuda /\ request.use_gpu THEN 1 ELSE 0
  /\ guardCalls > 0 => request.use_gpu
  /\ executed > 0 => Constructed

C10_Witness ==
  /\ guardCalls = 1
  /\ pc = "ready"
  /\ Len(calls) = 2
  /\ executed >= 2

\* Names under which an outcome could say which execution path ran.
PathNames ==
  {"execution_path", "path", "backend", "accelerated", "reference",
   "use_gpu", "gpu", "cuda"}

\* C11: every outcome of run_nlnm_breathing says, in its metrics or its
\* message, which execution path (reference or accelerated) ran.
C11_OutcomeReportsPath ==
  outcome.set =>
    (outcome.keys \cup outcome.message_fields) \cap PathNames # {}

\* C13: get_current_atoms fails exactly when the atom store is empty (as
\* after new), else returns the stored atoms in their order; no run call
\* changes which of the two it does.
C13_CurrentAtoms ==
  Constructed =>
    /\ get_current_atoms.ok = (atoms_cpu # <<>>)
    /\ get_current_atoms.ok = (parsed # <<>>)
    /\ via = "new" => ~get_current_atoms.ok
    /\ get_current_atoms.ok => get_current_atoms.atoms = atoms_cpu
    /\ ~get_current_atoms.ok => get_current_atoms.err = ErrValidation

C13_Witness ==
  /\ pc = "ready"
  /\ via = "new"
  /\ Len(calls) = 2
  /\ executed >= 2
  /\ ~get_current_atoms.ok

\* C14: right after a successful from_sovereign_buffer that parsed N atoms
\* current_energy is -2.5 * N, so negative for N >= 1; for N = 7000 it lies
\* between -20000 and 0.
C14_InitialEnergy ==
  /\ (pc = "ready" /\ via = "buffer" /\ calls = <<>>) =>
       /\ 2 * current_energy[1] = -5 * Len(atoms_cpu) * current_energy[2]
       /\ Len(atoms_cpu) >= 1 => Lt(current_energy, <<0, 1>>)
  /\ Lt(<<-20000, 1>>, calculate_initial_energy(7000))
  /\ Lt(calculate_initial_energy(7000), <<0, 1>>)

C14_Witness ==
  /\ pc = "ready"
  /\ via = "buffer"
  /\ calls = <<>>
  /\ Len(atoms_cpu) = MaxLen
  /\ Lt(current_energy, <<0, 1>>)

\* gradient_norm after a step whose loop variable is n: 1/(n+1) + 0.001.
GradientAt(n) == Norm(1000 + (n + 1), 1000 * (n + 1))

\* The steps of a call run(n) at which the convergence check succeeds.
ConvergingSteps(n) ==
  {k \in 1..n : Lt(GradientAt(k), config.gradient_threshold)}

\* The smallest element of a non-empty set of numbers.
Least(S) == CHOOSE k \in S : \A j \in S : k <= j

\* Where a call run(n) stops: at its first converging step, else at n.
StopStep(n) ==
  IF ConvergingSteps(n) # {} THEN Least(ConvergingSteps(n)) ELSE n

\* C15 as stated: on return from run(steps), current_step is the first
\* converging step of 1..steps, or steps if there is none, and no step
\* after it was executed.
C15_EarlyStopAsStated ==
  (pc = "ready" /\ calls # <<>>) =>
    LET c == Call(Len(calls))
    IN  /\ current_step = StopStep(c.steps)
        /\ c.iters = StopStep(c.steps)

\* C15 amended: the same for steps >= 1; run(0) executes nothing and leaves
\* current_step as it was at the call's entry.
C15_EarlyStop ==
  (pc = "ready" /\ calls # <<>>) =>
    LET c == Call(Len(calls))
    IN  /\ c.iters = StopStep(c.steps)
        /\ c.steps >= 1 => current_step = StopStep(c.steps)
        /\ c.steps = 0 => current_step = c.from
        /\ c.broke = (ConvergingSteps(c.steps) # {})
        /\ c.iters >= 1 => gradient_norm = GradientAt(c.iters)

C15_Witness ==
  /\ pc = "ready"
  /\ calls # <<>>
  /\ Call(Len(calls)).broke
  /\ current_step < Call(Len(calls)).steps
  /\ current_step >= 2

\* C16: the steps_completed metric of a run call's outcome is the number of
\* loop iterations that call executed, run(0) and later calls included.
C16_StepsCompleted ==
  (pc = "ready" /\ outcome.set) =>
    outcome.steps_completed = Call(Len(calls)).iters

\* C20: once a step has executed acceptance_rate lies in [0.5, 0.9]; before
\* the first step it is 0.0.
C20_AcceptanceRange ==
  Constructed =>
    /\ executed >= 1 =>
         (500000 <= acceptance_rate /\ acceptance_rate <= 900000)
    /\ executed = 0 => acceptance_rate = 0

C20_Witness ==
  /\ pc = "ready"
  /\ executed >= MaxSteps
  /\ acceptance_rate > 500000
  /\ acceptance_rate < 900000

\* C18: with telemetry compiled in, each executed step emits exactly one
\* frame, after its diagnostics are updated and before the convergence check
\* (so the step that stops the run early emits its frame too), carrying the
\* step number the engine holds; without telemetry no frame is emitted.
C18_TelemetryFrames ==
  /\ telemetry =>
       /\ Len(frames) = executed
       /\ \A i \in 1..Len(frames) :
            frames[i].gradient_norm = GradientAt(frames[i].step)
       /\ (Constructed /\ executed >= 1) =>
            /\ frames[Len(frames)].step = current_step
            /\ frames[Len(frames)].gradient_norm = gradient_norm
            /\ frames[Len(frames)].energy = current_energy
            /\ frames[Len(frames)].acceptance_rate = acceptance_rate
  /\ ~telemetry => frames = <<>>

C18_Witness ==
  /\ telemetry
  /\ pc = "exit"
  /\ Call(Len(calls)).broke
  /\ step < steps
  /\ Len(frames) >= 2
  /\ frames[Len(frames)].step = current_step

\* C19: every call run(steps) returns after at most `steps` iterations (a
\* call in progress has done `step` <= `steps` of them and each iteration
\* adds one), and what it returns is a Success outcome: no step fails, so no
\* run call returns an error.
C19_RunTerminates ==
  /\ \A k \in 1..Len(calls) : Call(k).iters <= Call(k).steps
  /\ pc \in {"loop", "exit"} =>
       /\ step <= steps
       /\ Call(Len(calls)).iters = step
       /\ pc = "exit" => Call(Len(calls)).broke
  /\ outcome.set => outcome.status = "Success"
  /\ (pc = "ready" /\ calls # <<>>) =>
       /\ outcome.set
       /\ Call(Len(calls)).broke \/ Call(Len(calls)).iters = Call(Len(calls)).steps
  /\ Len(calls) >= 1 => pc \in {"ready", "loop", "exit"}

C19_Witness ==
  /\ pc = "ready"
  /\ Len(calls) = 2
  /\ outcome.set
  /\ outcome.status = "Success"
  /\ Call(2).iters = MaxSteps

\* The run calls made on the first engine, as step counts.
StepCounts == [k \in 1..Len(calls) |-> Call(k).steps]

\* Both engines of the pair exist and have returned from the same run calls.
SameRuns == pc = "ready" /\ twin.built /\ twin.calls = StepCounts

\* A snapshot without its elapsed-time field.
Untimed(st) == [st EXCEPT !.runtime_seconds = 0]

\* C12 as stated: two engines built from the same config and atoms and run
\* for the same number of steps have equal atoms and snapshots equal in
\* every field.
C12_DeterministicAsStated ==
  SameRuns =>
    /\ atoms_cpu = twin.engine.atoms_cpu
    /\ Statistics(Engine, now) = Statistics(twin.engine, now)

\* C12: two engines built from the same config and atoms and run for the
\* same number of steps have equal atoms and snapshots equal in every field
\* but runtime_seconds, which is the time since each engine's own last start.
C12_Deterministic ==
  SameRuns =>
    /\ atoms_cpu = twin.engine.atoms_cpu
    /\ Untimed(Statistics(Engine, now)) = Untimed(Statistics(twin.engine, now))

C12_Witness ==
  /\ SameRuns
  /\ Len(calls) >= 1
  /\ Call(1).iters >= 2
  /\ atoms_cpu # <<>>
  /\ start_time # twin.engine.start_time

\* What parse_protein_structure returns for the caller's buffer when it
\* runs alone.
Alone(p) == parse_protein_structure(ctor[p].buf, [exists |-> FALSE, data |-> <<>>], TRUE)

\* The caller has returned something other than what its own buffer gives.
Foreign(p) ==
  /\ ctor[p].pc = "done"
  /\ ctor[p].buf # <<>>
  /\ \/ ctor[p].result # (IF Alone(p).ok THEN "Ok" ELSE Alone(p).err)
     \/ ctor[p].atoms # Alone(p).atoms

\* C17: a construction ends with atoms that are not those of its own buffer,
\* or with an error its own buffer does not give, only when the other
\* construction wrote or removed the shared temp file between its write and
\* its load; such an end is reachable (the witness).
C17_SharedTempFile ==
  \A p \in {1, 2} : Foreign(p) => ~ctor[p].clean

C17_Witness ==
  /\ \E p \in {1, 2} :
       /\ Foreign(p)
       /\ ctor[p].result = "Ok"
       /\ ctor[p].atoms # PtbAtoms(ctor[p].buf)
  /\ \E p \in {1, 2} :
       /\ Foreign(p)
       /\ ValidBuffer(ctor[p].buf)
       /\ ctor[p].result = ErrInternal

====
